---------------------------- MODULE Spec2Model ----------------------------
(***************************************************************************)
(* Model of the Firebase token verifier (token_verifier.go) and of its     *)
(* HTTP key source.                                                        *)
(*                                                                         *)
(* Strings are TLA+ strings.  A byte string that is decoded (a JWT         *)
(* segment, a response body, a Cache-Control header) is modelled by what   *)
(* the decoders of the source make of it:                                  *)
(*   - a JWT segment is a record saying whether it is the empty string,    *)
(*     whether it is valid raw-URL base64, whether the decoded bytes are   *)
(*     JSON, and the JSON object (a function from member names to tagged   *)
(*     values [t |-> "str"|"num"|"obj", s |-> string, n |-> integer]);     *)
(*   - a signature segment says whether it is valid base64, which key      *)
(*     material produced it and over which two segments;                   *)
(*   - a token string is the sequence of its dot-separated segments, i.e.  *)
(*     the value of strings.Split(token, ".").                             *)
(* Go's int64 is modelled as a two's complement integer of IntBits bits.   *)
(* The slice of cached keys is modelled as the set of its elements: the    *)
(* slice is built by ranging over a Go map, whose order is unspecified.    *)
(***************************************************************************)
EXTENDS Integers, Sequences, FiniteSets, TLC

(***************************************************************************)
(* Program constants (token_verifier.go, const block).                     *)
(***************************************************************************)
idTokenIssuerPrefix == "https://securetoken.google.com/"
clockSkewSeconds == 300
firebaseAudience == "https://identitytoolkit.googleapis.com/google.identity.identitytoolkit.v1.IdentityToolkit"
StatusOK == 200
MaxSubjectLen == 128

(***************************************************************************)
(* Bounds of the model.                                                    *)
(***************************************************************************)
IntBits == 11
NumCallers == 2
MaxTime == 3
MaxCalls == 3

IntMin == -(2 ^ (IntBits - 1))
IntMax == (2 ^ (IntBits - 1)) - 1

\* int64 arithmetic wraps around (Go spec, integer overflow).
Wrap(x) == ((x - IntMin) % (2 ^ IntBits)) + IntMin

\* time.Second: the number of units of a time.Duration (an int64) in one
\* second, scaled as IntBits scales the 64 bits of int64.  The clock of the
\* model counts seconds.
Second == 2 ^ (IntBits - 8)

nil == "nil"
NoKeys == {}
NoToken == [isNil |-> TRUE]

(***************************************************************************)
(* JSON values and the segments of a token.                                *)
(***************************************************************************)
Str(s) == [t |-> "str", s |-> s, n |-> 0]
Num(n) == [t |-> "num", s |-> "", n |-> n]
Obj(s) == [t |-> "obj", s |-> s, n |-> 0]

NoObj == [x \in {} |-> Str("")]

\* A segment.  signer and msg are meaningful for a signature segment only.
Seg(empty, b64, json, obj, signer, msg) ==
    [empty |-> empty, b64 |-> b64, json |-> json, obj |-> obj, signer |-> signer, msg |-> msg]

\* The empty string: valid base64 of zero bytes, which is not a JSON value.
EmptySeg == Seg(TRUE, TRUE, FALSE, NoObj, "", <<>>)
BadB64Seg == Seg(FALSE, FALSE, FALSE, NoObj, "", <<>>)
BadJSONSeg == Seg(FALSE, TRUE, FALSE, NoObj, "", <<>>)
JSONSeg(o) == Seg(FALSE, TRUE, TRUE, o, "", <<>>)

\* The RS256 signature made with the private key of key material km over
\* the text h "." p.  Its bytes are not JSON.
SigSeg(km, h, p) == Seg(FALSE, TRUE, FALSE, NoObj, km, <<h, p>>)
BadSigSeg == Seg(FALSE, FALSE, FALSE, NoObj, "", <<>>)

\* token == "" : Split yields the single empty segment.
EmptyToken == <<EmptySeg>>

(***************************************************************************)
(* decode: base64.RawURLEncoding.DecodeString, then json Decode into the   *)
(* target.  A member that is absent leaves the zero value; a member of the *)
(* wrong JSON type, or a number outside int64, is an error.                *)
(***************************************************************************)
StrField(o, name) == IF name \in DOMAIN o THEN o[name].s ELSE ""
NumField(o, name) == IF name \in DOMAIN o THEN o[name].n ELSE 0

FieldsTyped(o, strs, nums, objs) ==
    /\ \A f \in strs \cap DOMAIN o : o[f].t = "str"
    /\ \A f \in nums \cap DOMAIN o : o[f].t = "num" /\ o[f].n \in IntMin..IntMax
    /\ \A f \in objs \cap DOMAIN o : o[f].t = "obj"

decodeHeader(segment) ==
    IF ~segment.b64 THEN [err |-> "illegal base64 data", val |-> [Algorithm |-> "", Type |-> "", KeyID |-> ""]]
    ELSE IF ~segment.json \/ ~FieldsTyped(segment.obj, {"alg", "typ", "kid"}, {}, {})
    THEN [err |-> "json decode error", val |-> [Algorithm |-> "", Type |-> "", KeyID |-> ""]]
    ELSE [err |-> nil,
          val |-> [Algorithm |-> StrField(segment.obj, "alg"),
                   Type |-> StrField(segment.obj, "typ"),
                   KeyID |-> StrField(segment.obj, "kid")]]

ZeroToken ==
    [isNil |-> FALSE, AuthTime |-> 0, Issuer |-> "", Audience |-> "", Expires |-> 0,
     IssuedAt |-> 0, Subject |-> "", UID |-> "", Firebase |-> "", Claims |-> NoObj]

decodeToken(segment) ==
    IF ~segment.b64 THEN [err |-> "illegal base64 data", val |-> ZeroToken]
    ELSE IF ~segment.json
            \/ ~FieldsTyped(segment.obj, {"iss", "aud", "sub", "uid"},
                            {"auth_time", "exp", "iat"}, {"firebase"})
    THEN [err |-> "json decode error", val |-> ZeroToken]
    ELSE [err |-> nil,
          val |-> [isNil |-> FALSE,
                   AuthTime |-> NumField(segment.obj, "auth_time"),
                   Issuer |-> StrField(segment.obj, "iss"),
                   Audience |-> StrField(segment.obj, "aud"),
                   Expires |-> NumField(segment.obj, "exp"),
                   IssuedAt |-> NumField(segment.obj, "iat"),
                   Subject |-> StrField(segment.obj, "sub"),
                   UID |-> StrField(segment.obj, "uid"),
                   Firebase |-> StrField(segment.obj, "firebase"),
                   Claims |-> NoObj]]

\* Decoding into map[string]interface{} accepts every JSON object.
decodeMap(segment) ==
    IF ~segment.b64 THEN [err |-> "illegal base64 data", val |-> NoObj]
    ELSE IF ~segment.json THEN [err |-> "json decode error", val |-> NoObj]
    ELSE [err |-> nil, val |-> segment.obj]

StandardClaims == {"iss", "aud", "exp", "iat", "sub", "uid"}

\* Mutant: uid is not deleted.
deleteStandard_KeepUid(m) == [name \in (DOMAIN m) \ (StandardClaims \ {"uid"}) |-> m[name]]

\* delete(customClaims, standardClaim) for each standard claim.
deleteStandard(m) == [name \in (DOMAIN m) \ StandardClaims |-> m[name]]

(***************************************************************************)
(* tokenVerifier.verifyContent.  tv is the verifier's configuration.  The  *)
(* result also counts the calls of decode made.                            *)
(***************************************************************************)
ContentOutcome(err, payload, decodes) == [err |-> err, payload |-> payload, decodes |-> decodes]

\* Mutant: a subject of exactly 128 characters is rejected.
checkClaims_SubjectOffByOne(tv, header, payload) ==
    LET issuer == tv.issuerPrefix \o tv.projectID IN
    IF header.KeyID = "" THEN
        IF payload.Audience = firebaseAudience THEN "got a custom token"
        ELSE "has no 'kid' header"
    ELSE IF header.Algorithm # "RS256" THEN "invalid algorithm"
    ELSE IF payload.Audience # tv.projectID THEN "invalid 'aud' claim"
    ELSE IF payload.Issuer # issuer THEN "invalid 'iss' claim"
    ELSE IF payload.Subject = "" THEN "empty 'sub' claim"
    ELSE IF Len(payload.Subject) >= MaxSubjectLen THEN "'sub' claim too long"
    ELSE nil

\* Mutant: the algorithm is checked before the key id.
checkClaims_AlgorithmFirst(tv, header, payload) ==
    LET issuer == tv.issuerPrefix \o tv.projectID IN
    IF header.Algorithm # "RS256" THEN "invalid algorithm"
    ELSE IF header.KeyID = "" THEN
        IF payload.Audience = firebaseAudience THEN "got a custom token"
        ELSE "has no 'kid' header"
    ELSE IF payload.Audience # tv.projectID THEN "invalid 'aud' claim"
    ELSE IF payload.Issuer # issuer THEN "invalid 'iss' claim"
    ELSE IF payload.Subject = "" THEN "empty 'sub' claim"
    ELSE IF Len(payload.Subject) > MaxSubjectLen THEN "'sub' claim too long"
    ELSE nil

\* The checks of verifyContent on the decoded header and payload; nil when
\* all pass.
checkClaims(tv, header, payload) ==
    LET issuer == tv.issuerPrefix \o tv.projectID IN
    IF header.KeyID = "" THEN
        IF payload.Audience = firebaseAudience THEN "got a custom token"
        ELSE "has no 'kid' header"
    ELSE IF header.Algorithm # "RS256" THEN "invalid algorithm"
    ELSE IF payload.Audience # tv.projectID THEN "invalid 'aud' claim"
    ELSE IF payload.Issuer # issuer THEN "invalid 'iss' claim"
    ELSE IF payload.Subject = "" THEN "empty 'sub' claim"
    ELSE IF Len(payload.Subject) > MaxSubjectLen THEN "'sub' claim too long"
    ELSE nil

\* Mutant: segments after the third are ignored.
verifyContent_AtLeastThree(tv, token) ==
    LET segments == token IN
    IF Len(segments) < 3 THEN ContentOutcome("incorrect number of segments", NoToken, 0)
    ELSE
    LET h == decodeHeader(segments[1])
        p == decodeToken(segments[2])
        c == decodeMap(segments[2])
    IN
    IF h.err # nil THEN ContentOutcome(h.err, NoToken, 1)
    ELSE IF p.err # nil THEN ContentOutcome(p.err, NoToken, 2)
    ELSE IF checkClaims(tv, h.val, p.val) # nil
    THEN ContentOutcome(checkClaims(tv, h.val, p.val), NoToken, 2)
    ELSE IF c.err # nil THEN ContentOutcome(c.err, NoToken, 3)
    ELSE ContentOutcome(nil,
            [p.val EXCEPT !.UID = p.val.Subject, !.Claims = deleteStandard(c.val)], 3)

verifyContent(tv, token) ==
    LET segments == token IN
    IF Len(segments) # 3 THEN ContentOutcome("incorrect number of segments", NoToken, 0)
    ELSE
    LET h == decodeHeader(segments[1])
        p == decodeToken(segments[2])
        c == decodeMap(segments[2])
    IN
    IF h.err # nil THEN ContentOutcome(h.err, NoToken, 1)
    ELSE IF p.err # nil THEN ContentOutcome(p.err, NoToken, 2)
    ELSE IF checkClaims(tv, h.val, p.val) # nil
    THEN ContentOutcome(checkClaims(tv, h.val, p.val), NoToken, 2)
    ELSE IF c.err # nil THEN ContentOutcome(c.err, NoToken, 3)
    ELSE ContentOutcome(nil,
            [p.val EXCEPT !.UID = p.val.Subject, !.Claims = deleteStandard(c.val)], 3)

(***************************************************************************)
(* tokenVerifier.verifyTimestamps.  t1 and t2 are the values of the two    *)
(* reads of time.Now().Unix().                                             *)
(***************************************************************************)
verifyTimestamps(payload, t1, t2) ==
    IF Wrap(payload.IssuedAt - clockSkewSeconds) > t1 THEN "issued at future timestamp"
    ELSE IF Wrap(payload.Expires + clockSkewSeconds) < t2 THEN "has expired"
    ELSE nil

(***************************************************************************)
(* verifyJWTSignature and the candidate loop of verifySignature.           *)
(***************************************************************************)
PublicKey(kid, km) == [Kid |-> kid, Key |-> km]

verifyJWTSignature(parts, k) ==
    IF ~parts[3].b64 THEN "illegal base64 data"
    ELSE IF parts[3].signer = k.Key /\ parts[3].msg = <<parts[1], parts[2]>> THEN nil
    ELSE "crypto/rsa: verification error"

\* The keys the loop of verifySignature may pass to verifyJWTSignature.
candidateKeys(h, keys) == {k \in keys : h.KeyID = "" \/ h.KeyID = k.Kid}

\* Mutant: every key is a candidate, whatever its identifier.
verifyWithKeys_AnyKey(segments, h, keys) ==
    IF \E k \in keys : verifyJWTSignature(segments, k) = nil
    THEN nil
    ELSE "failed to verify token signature"

\* The loop over keys: verified iff some candidate key verifies.
verifyWithKeys(segments, h, keys) ==
    IF \E k \in keys : (h.KeyID = "" \/ h.KeyID = k.Kid) /\ verifyJWTSignature(segments, k) = nil
    THEN nil
    ELSE "failed to verify token signature"

(***************************************************************************)
(* The HTTP key source.                                                    *)
(*                                                                         *)
(* An HTTP exchange is modelled by its outcome resp:                       *)
(*   doErr    HTTPClient.Do returned an error (also a cancelled context)   *)
(*   readErr  reading the body failed                                      *)
(*   status   the status code                                              *)
(*   body     [json |-> the body unmarshals into map[string]string,        *)
(*             certs |-> function from key id to certificate text], a      *)
(*            certificate text being [pem, x509, rsa |-> BOOLEAN,          *)
(*            key |-> key material]                                        *)
(*   cc       the Cache-Control header as the sequence of its comma        *)
(*            separated, trimmed values, each [maxage |-> it starts with   *)
(*            "max-age=", int |-> the rest parses as an int64,             *)
(*            secs |-> that integer]; findMaxAge makes a time.Duration of  *)
(*            it, time.Duration(seconds) * time.Second, which wraps        *)
(***************************************************************************)
ZeroTime == 0

\* Time.Add(d) at the resolution of the clock: a time that is not a whole
\* second compares with the clock like the second it falls in.
Add(t, d) == t + (d \div Second)

parsePublicKey(kid, key) ==
    IF ~key.pem THEN [err |-> "failed to decode the certificate as PEM", key |-> PublicKey(kid, "")]
    ELSE IF ~key.x509 THEN [err |-> "x509: malformed certificate", key |-> PublicKey(kid, "")]
    ELSE IF ~key.rsa THEN [err |-> "certificate is not an RSA key", key |-> PublicKey(kid, "")]
    ELSE [err |-> nil, key |-> PublicKey(kid, key.key)]

\* The first entry that fails to parse rejects the whole body.
parsePublicKeys(keys) ==
    IF ~keys.json THEN [err |-> "json unmarshal error", result |-> NoKeys]
    ELSE
    LET m == keys.certs
        bad == {kid \in DOMAIN m : parsePublicKey(kid, m[kid]).err # nil}
    IN  IF bad # {}
        THEN [err |-> parsePublicKey(CHOOSE kid \in bad : TRUE, m[CHOOSE kid \in bad : TRUE]).err,
              result |-> NoKeys]
        ELSE [err |-> nil, result |-> {parsePublicKey(kid, m[kid]).key : kid \in DOMAIN m}]

\* Mutant: without a max-age directive the keys are cached for no time.
findMaxAge_Default(resp) ==
    LET cc == resp.cc
        hits == {i \in 1..Len(cc) : cc[i].maxage}
    IN  IF hits = {} THEN [err |-> nil, maxAge |-> 0]
        ELSE LET i == CHOOSE j \in hits : \A l \in hits : j <= l
             IN  IF ~cc[i].int THEN [err |-> "strconv.ParseInt: invalid syntax", maxAge |-> 0]
                 ELSE [err |-> nil, maxAge |-> Wrap(cc[i].secs * Second)]

findMaxAge(resp) ==
    LET cc == resp.cc
        hits == {i \in 1..Len(cc) : cc[i].maxage}
    IN  IF hits = {} THEN [err |-> "Could not find expiry time from HTTP headers", maxAge |-> 0]
        ELSE LET i == CHOOSE j \in hits : \A l \in hits : j <= l
             IN  IF ~cc[i].int THEN [err |-> "strconv.ParseInt: invalid syntax", maxAge |-> 0]
                 ELSE [err |-> nil, maxAge |-> Wrap(cc[i].secs * Second)]

\* Mutant: the comparison is reversed (ExpiryTime.After(now)).
hasExpired_Reversed(t, ExpiryTime_) == ExpiryTime_ > t

\* Mutant: the cache counts as expired at the instant of its expiry.
hasExpired_AtOrAfter(t, ExpiryTime_) == t >= ExpiryTime_

\* hasExpired: time.Now().After(k.ExpiryTime), with t the value of time.Now().
hasExpired(t, ExpiryTime_) == t > ExpiryTime_

\* Mutant: every call of Keys refreshes.
needsRefresh_Always(cache, t) == TRUE

\* The refresh decision of Keys.
needsRefresh(cache, t) == Cardinality(cache.keys) = 0 \/ hasExpired(t, cache.expiry)

\* refreshKeys up to the request: the cached keys are dropped first.
refreshStart(cache) == [cache EXCEPT !.keys = NoKeys]

\* refreshKeys from the response on.  cache is the cache as refreshStart
\* left it, t the value of time.Now() after the response was processed.
refreshFinish(cache, resp, t) ==
    IF resp.doErr THEN [err |-> "request failed", cache |-> cache]
    ELSE IF resp.readErr THEN [err |-> "read failed", cache |-> cache]
    ELSE IF resp.status # StatusOK THEN [err |-> "invalid response", cache |-> cache]
    ELSE
    LET parsed == parsePublicKeys(resp.body)
        age == findMaxAge(resp)
    IN  IF parsed.err # nil THEN [err |-> parsed.err, cache |-> cache]
        ELSE IF age.err # nil THEN [err |-> age.err, cache |-> cache]
        ELSE [err |-> nil, cache |-> [keys |-> parsed.result, expiry |-> Add(t, age.maxAge)]]

\* Mutant: the refresh error is always swallowed.
keysAfterRefresh_Swallow(err, cached) == [keys |-> cached, err |-> nil]

\* The value Keys returns after refreshKeys returned err and left cached.
keysAfterRefresh(err, cached) ==
    IF err # nil /\ Cardinality(cached) = 0
    THEN [keys |-> NoKeys, err |-> err]
    ELSE [keys |-> cached, err |-> nil]

(***************************************************************************)
(* tokenVerifier.VerifyToken, piecewise.                                   *)
(***************************************************************************)
Result(token, err) == [token |-> token, err |-> err]

\* Mutant: the token is checked before the project ID.
precheck_TokenFirst(tv, token) ==
    IF token = EmptyToken THEN "must be a non-empty string"
    ELSE IF tv.projectID = "" THEN "project id not available"
    ELSE nil

\* The two guards at the head of VerifyToken; nil when both pass.
precheck(tv, token) ==
    IF tv.projectID = "" THEN "project id not available"
    ELSE IF token = EmptyToken THEN "must be a non-empty string"
    ELSE nil

\* verifySignature after Keys returned kr = [keys, err].
signatureOutcome(token, kr) ==
    IF kr.err # nil THEN kr.err
    ELSE verifyWithKeys(token, decodeHeader(token[1]).val, kr.keys)

\* Mutant: the payload is returned whatever verifySignature said.
verifyTokenResult_IgnoreSigErr(payload, sigErr) == Result(payload, nil)

\* The tail of VerifyToken: the result given the error of verifySignature.
verifyTokenResult(payload, sigErr) ==
    IF sigErr # nil THEN Result(NoToken, sigErr) ELSE Result(payload, nil)

\* Mutant: the signature is verified whatever verifyTimestamps said.
beforeKeys_IgnoreTimestamps(tv, token, t1, t2) ==
    LET pre == precheck(tv, token)
        c == verifyContent(tv, token)
        h == decodeHeader(token[1])
    IN  IF pre # nil
        THEN [err |-> pre, payload |-> NoToken, stages |-> <<>>, decodes |-> 0]
        ELSE IF c.err # nil
        THEN [err |-> c.err, payload |-> NoToken, stages |-> <<>>, decodes |-> c.decodes]
        ELSE [err |-> h.err, payload |-> c.payload, stages |-> <<"content", "timestamps">>,
              decodes |-> c.decodes + 1]

\* VerifyToken up to the call of Keys in verifySignature, at clock reads t1
\* and t2: the error that ends the call (nil when Keys is reached), the
\* payload, the stages passed and the calls of decode made.  The wrapping of
\* a content error into a longer message is not modelled.
beforeKeys(tv, token, t1, t2) ==
    LET pre == precheck(tv, token)
        c == verifyContent(tv, token)
        e == verifyTimestamps(c.payload, t1, t2)
        h == decodeHeader(token[1])
    IN  IF pre # nil
        THEN [err |-> pre, payload |-> NoToken, stages |-> <<>>, decodes |-> 0]
        ELSE IF c.err # nil
        THEN [err |-> c.err, payload |-> NoToken, stages |-> <<>>, decodes |-> c.decodes]
        ELSE IF e # nil
        THEN [err |-> e, payload |-> c.payload, stages |-> <<"content">>, decodes |-> c.decodes]
        ELSE [err |-> h.err, payload |-> c.payload, stages |-> <<"content", "timestamps">>,
              decodes |-> c.decodes + 1]

(***************************************************************************)
(* The plugin (validatetoken.go, the variant built on tokenVerifier).      *)
(*                                                                         *)
(* A request is [hasAuth |-> the header map has the key Authorization,     *)
(* bearer |-> the number of occurrences of "Bearer " in the first value of *)
(* that header, token |-> the rest of that value].  The header, when       *)
(* present, has at least one value, as in every request net/http parses.   *)
(***************************************************************************)
StatusUnauthorized == 401

Request(hasAuth, bearer, token) ==
    [isNil |-> FALSE, hasAuth |-> hasAuth, bearer |-> bearer, token |-> token]
NoRequest == [isNil |-> TRUE]

\* ExtractToken: strings.Replace(authHeader[0], "Bearer ", "", -1) removes
\* every occurrence of "Bearer ".
ExtractToken(r) ==
    IF ~r.hasAuth THEN [err |-> "Token not found", token |-> EmptyToken]
    ELSE [err |-> nil, token |-> r.token]

\* fmt.Sprintf("%v", value) of a claim value.
Format(v) ==
    IF v.t = "str" THEN v.s
    ELSE IF v.t = "num" THEN ToString(v.n)
    ELSE "map[" \o v.s \o "]"

\* The request headers ServeHTTP sets from a verified token, as pairs of
\* name and value.
claimHeaders(token) ==
    {<<"fb-userid", token.UID>>}
    \cup {<<"fbclaim-" \o key, Format(token.Claims[key])>> : key \in DOMAIN token.Claims}

\* What ServeHTTP did with a request: whether it called VerifyToken and with
\* which result, the request headers it set, whether it called the next
\* handler, and the response it wrote itself (status 0: none).
Exchange(r, called, res, set, next, status, body) ==
    [done |-> TRUE, req |-> r, called |-> called, res |-> res, set |-> set,
     next |-> next, status |-> status, body |-> body]
NoExchange == [done |-> FALSE]

\* http.Error(rw, "Unauthorized", http.StatusUnauthorized).
unauthorized(r, called, res) ==
    Exchange(r, called, res, {}, FALSE, StatusUnauthorized, "Unauthorized\n")

\* Mutant: the next handler is called whatever VerifyToken returned.
afterVerify_AlwaysNext(r, res) ==
    IF res.err = nil
    THEN Exchange(r, TRUE, res, claimHeaders(res.token), TRUE, 0, "")
    ELSE Exchange(r, TRUE, res, {}, TRUE, 0, "")

\* ServeHTTP from the return of VerifyToken on.
afterVerify(r, res) ==
    IF res.err = nil
    THEN Exchange(r, TRUE, res, claimHeaders(res.token), TRUE, 0, "")
    ELSE unauthorized(r, TRUE, res)

(***************************************************************************)
(* Inputs of the model.                                                    *)
(***************************************************************************)
ProjectID == "proj"

Header(kid, alg) == JSONSeg([alg |-> Str(alg), typ |-> Str("JWT"), kid |-> Str(kid)])
HeaderNoKid(alg) == JSONSeg([alg |-> Str(alg), typ |-> Str("JWT")])

Payload(iss, aud, sub, iat, exp) ==
    JSONSeg([iss |-> Str(iss), aud |-> Str(aud), sub |-> Str(sub),
             iat |-> Num(iat), exp |-> Num(exp), auth_time |-> Num(iat),
             firebase |-> Obj("password"), role |-> Str("admin")])

Signed(h, p, km) == <<h, p, SigSeg(km, h, p)>>

GoodIssuer == idTokenIssuerPrefix \o ProjectID
GoodPayload == Payload(GoodIssuer, ProjectID, "user1", 0, 100)

TokGood == Signed(Header("k1", "RS256"), GoodPayload, "km1")
TokForged == Signed(Header("k1", "RS256"), GoodPayload, "evil")
TokExpired == Signed(Header("k1", "RS256"), Payload(GoodIssuer, ProjectID, "user1", 0, -400), "km1")
TokBadAud == Signed(Header("k1", "RS256"), Payload(GoodIssuer, "other", "user1", 0, 100), "km1")
TokTwoSegs == <<Header("k1", "RS256"), GoodPayload>>

Tokens == {EmptyToken, TokGood, TokExpired, TokBadAud}

GoodCert(km) == [pem |-> TRUE, x509 |-> TRUE, rsa |-> TRUE, key |-> km]
CertsA == [kid \in {"k1"} |-> GoodCert("km1")]
CertsB == [kid \in {"k2"} |-> GoodCert("km2")]
CertsNone == [kid \in {} |-> GoodCert("")]
CertsBadPEM == [kid \in {"k1", "k2"} |->
                  IF kid = "k1" THEN GoodCert("km1")
                  ELSE [pem |-> FALSE, x509 |-> FALSE, rsa |-> FALSE, key |-> ""]]
CertsNotRSA == [kid \in {"k1"} |-> [pem |-> TRUE, x509 |-> TRUE, rsa |-> FALSE, key |-> ""]]
CertsBadX509 == [kid \in {"k1"} |-> [pem |-> TRUE, x509 |-> FALSE, rsa |-> FALSE, key |-> ""]]

Directive(isMaxAge, isInt, secs) == [maxage |-> isMaxAge, int |-> isInt, secs |-> secs]
CacheControl(age) == <<Directive(FALSE, FALSE, 0), Directive(TRUE, TRUE, age), Directive(FALSE, FALSE, 0)>>
NoMaxAge == <<Directive(FALSE, FALSE, 0)>>
BadMaxAge == <<Directive(TRUE, FALSE, 0)>>

Response(doErr, readErr, status, body, cc) ==
    [doErr |-> doErr, readErr |-> readErr, status |-> status, body |-> body, cc |-> cc]
Body(certs) == [json |-> TRUE, certs |-> certs]
BadBody == [json |-> FALSE, certs |-> CertsNone]

OKResponses ==
    {Response(FALSE, FALSE, StatusOK, Body(CertsA), CacheControl(0)),
     Response(FALSE, FALSE, StatusOK, Body(CertsA), CacheControl(2)),
     Response(FALSE, FALSE, StatusOK, Body(CertsB), CacheControl(2)),
     Response(FALSE, FALSE, StatusOK, Body(CertsNone), CacheControl(2))}

\* One failure of each kind: request error, non-200 status, key parse
\* error, missing max-age.
FailedResponses ==
    {Response(TRUE, FALSE, 0, BadBody, NoMaxAge),
     Response(FALSE, FALSE, 500, BadBody, CacheControl(2)),
     Response(FALSE, FALSE, StatusOK, Body(CertsBadPEM), CacheControl(2)),
     Response(FALSE, FALSE, StatusOK, Body(CertsA), NoMaxAge)}

\* The remaining ways a response can fail.
OtherFailedResponses ==
    {Response(FALSE, TRUE, StatusOK, BadBody, NoMaxAge),
     Response(FALSE, FALSE, StatusOK, BadBody, CacheControl(2)),
     Response(FALSE, FALSE, StatusOK, Body(CertsNotRSA), CacheControl(2)),
     Response(FALSE, FALSE, StatusOK, Body(CertsBadX509), CacheControl(2)),
     Response(FALSE, FALSE, StatusOK, Body(CertsA), BadMaxAge)}

Responses == OKResponses \cup FailedResponses

(***************************************************************************)
(* The state.                                                              *)
(*   tv          the tokenVerifier (projectID, issuerPrefix)               *)
(*   CachedKeys, ExpiryTime, Mutex   the fields of its httpKeySource;      *)
(*               Mutex is 0 when free, else the caller holding it          *)
(*   now         the clock read by time.Now()                              *)
(*   pc, tok, payload   per caller: position in VerifyToken ("idle": not   *)
(*               in a call, "lock": blocked in Mutex.Lock, "fetch":        *)
(*               waiting for the HTTP response), the token argument, the   *)
(*               decoded payload                                           *)
(*   tr          per caller, history of the current VerifyToken call:      *)
(*               stages passed, calls of decode, calls of Keys, HTTP GETs  *)
(*   wt          per caller blocked in Mutex.Lock: whether a non-empty     *)
(*               expired key set was cached when it called Keys, and the   *)
(*               outcome of the last fetch completed since                 *)
(*   kc          history of the most recent Keys call that took the lock   *)
(*   last        the most recent VerifyToken call that returned            *)
(*   calls       number of VerifyToken and ServeHTTP calls started         *)
(*   req         per caller: the request ServeHTTP is serving, NoRequest   *)
(*               when VerifyToken was called directly                      *)
(*   served      the most recent exchange ServeHTTP completed              *)
(*   fetched     the most recent successful refresh: its response and the  *)
(*               time it completed                                         *)
(***************************************************************************)
VARIABLES tv, CachedKeys, ExpiryTime, Mutex, now, pc, tok, payload, tr, wt, kc, last, calls,
          req, served, fetched

vars == <<tv, CachedKeys, ExpiryTime, Mutex, now, pc, tok, payload, tr, wt, kc, last, calls,
          req, served, fetched>>

Callers == 1..NumCallers

Cache == [keys |-> CachedKeys, expiry |-> ExpiryTime]

NoTrace == [stages |-> <<>>, decodes |-> 0, keysCalls |-> 0, fetches |-> 0, tried |-> NoKeys]

NoWait == [stale0 |-> FALSE, since |-> "none"]

NoKeysCall ==
    [phase |-> "none", stale0 |-> FALSE, since |-> "none",
     pre |-> [keys |-> NoKeys, expiry |-> ZeroTime], at |-> 0,
     refreshed |-> FALSE, fetches |-> 0, resp |-> [isNil |-> TRUE], rerr |-> nil,
     ret |-> [keys |-> NoKeys, err |-> nil],
     post |-> [keys |-> NoKeys, expiry |-> ZeroTime]]

NoFetch == [isNil |-> TRUE]

NoCall == [returned |-> FALSE, tok |-> EmptyToken, ret |-> Result(NoToken, nil), tr |-> NoTrace]

\* newIDTokenVerifier and newHTTPKeySource: the cache starts empty, the
\* expiry is the zero time, the mutex is free.
InitWith(projectIDs, times) ==
    /\ tv \in {[projectID |-> id, issuerPrefix |-> idTokenIssuerPrefix] : id \in projectIDs}
    /\ CachedKeys = NoKeys
    /\ ExpiryTime = ZeroTime
    /\ Mutex = 0
    /\ now \in times
    /\ pc = [p \in Callers |-> "idle"]
    /\ tok = [p \in Callers |-> EmptyToken]
    /\ payload = [p \in Callers |-> NoToken]
    /\ tr = [p \in Callers |-> NoTrace]
    /\ wt = [p \in Callers |-> NoWait]
    /\ kc = NoKeysCall
    /\ last = NoCall
    /\ calls = 0
    /\ req = [p \in Callers |-> NoRequest]
    /\ served = NoExchange
    /\ fetched = NoFetch

Init == InitWith({"", ProjectID}, {1})

\* Time passes.
Tick ==
    /\ now < MaxTime
    /\ now' = now + 1
    /\ UNCHANGED <<tv, CachedKeys, ExpiryTime, Mutex, pc, tok, payload, tr, wt, kc, last, calls,
                   req, served, fetched>>

\* VerifyToken returns r to caller p, whose call has the history t; when
\* the caller is ServeHTTP serving rq, the rest of ServeHTTP follows.
Returns(p, token, r, t, rq) ==
    /\ last' = [returned |-> TRUE, tok |-> token, ret |-> r, tr |-> t]
    /\ pc' = [pc EXCEPT ![p] = "idle"]
    /\ tok' = [tok EXCEPT ![p] = EmptyToken]
    /\ payload' = [payload EXCEPT ![p] = NoToken]
    /\ tr' = [tr EXCEPT ![p] = NoTrace]
    /\ req' = [req EXCEPT ![p] = NoRequest]
    /\ served' = IF rq = NoRequest THEN served ELSE afterVerify(rq, r)

\* VerifyToken, called directly (rq = NoRequest) or by ServeHTTP serving
\* rq, from its entry to the call of Keys in verifySignature, where it
\* blocks in Mutex.Lock; it returns at once when a guard or a stage fails.
\* Both clock reads of verifyTimestamps fall in the current tick.
VerifyTokenCall(p, token, rq) ==
    /\ pc[p] = "idle"
    /\ calls < MaxCalls
    /\ calls' = calls + 1
    /\ LET b == beforeKeys(tv, token, now, now)
           t == [NoTrace EXCEPT !.stages = b.stages, !.decodes = b.decodes]
       IN  IF b.err # nil
           THEN /\ Returns(p, token, Result(NoToken, b.err), t, rq)
                /\ UNCHANGED wt
           ELSE /\ pc' = [pc EXCEPT ![p] = "lock"]
                /\ tok' = [tok EXCEPT ![p] = token]
                /\ payload' = [payload EXCEPT ![p] = b.payload]
                /\ tr' = [tr EXCEPT ![p] = [t EXCEPT !.keysCalls = 1]]
                /\ wt' = [wt EXCEPT ![p] =
                            [stale0 |-> Cardinality(CachedKeys) # 0 /\ hasExpired(now, ExpiryTime),
                             since |-> "none"]]
                /\ req' = [req EXCEPT ![p] = rq]
                /\ UNCHANGED <<last, served>>
    /\ UNCHANGED <<tv, CachedKeys, ExpiryTime, Mutex, now, kc, fetched>>

\* A direct call of VerifyToken.
VerifyTokenStart(p, token) == VerifyTokenCall(p, token, NoRequest)

\* ServeHTTP up to the point where VerifyToken blocks or returns; without an
\* Authorization header VerifyToken is not called.
ServeHTTP(p, r) ==
    LET e == ExtractToken(r)
    IN  IF e.err = nil
        THEN VerifyTokenCall(p, e.token, r)
        ELSE /\ pc[p] = "idle"
             /\ calls < MaxCalls
             /\ calls' = calls + 1
             /\ served' = unauthorized(r, FALSE, Result(NoToken, e.err))
             /\ UNCHANGED <<tv, CachedKeys, ExpiryTime, Mutex, now, pc, tok, payload, tr, wt,
                            kc, last, req, fetched>>

\* The rest of VerifyToken once Keys returned kr after sending gets HTTP
\* requests: the candidate loop and the result.
Finish(p, kr, gets) ==
    LET sigErr == signatureOutcome(tok[p], kr)
    IN  Returns(p, tok[p], verifyTokenResult(payload[p], sigErr),
                [tr[p] EXCEPT !.stages = IF sigErr = nil THEN Append(@, "signature") ELSE @,
                              !.fetches = gets,
                              !.tried = IF kr.err # nil THEN NoKeys
                                        ELSE candidateKeys(decodeHeader(tok[p][1]).val, kr.keys)],
                req[p])

\* Mutant: Keys does not wait for the mutex.
KeysEnter_NoLock(p) ==
    /\ pc[p] = "lock"
    /\ wt' = [wt EXCEPT ![p] = NoWait]
    /\ LET entered == [NoKeysCall EXCEPT !.stale0 = wt[p].stale0,
                                         !.since = wt[p].since, !.pre = Cache, !.at = now]
       IN  IF needsRefresh(Cache, now)
           THEN /\ Mutex' = p
                /\ CachedKeys' = refreshStart(Cache).keys
                /\ pc' = [pc EXCEPT ![p] = "fetch"]
                /\ kc' = [entered EXCEPT !.phase = "fetching", !.refreshed = TRUE, !.fetches = 1]
                /\ UNCHANGED <<tok, payload, tr, last, req, served>>
           ELSE /\ Mutex' = 0
                /\ CachedKeys' = CachedKeys
                /\ kc' = [entered EXCEPT !.phase = "returned",
                                         !.ret = [keys |-> CachedKeys, err |-> nil],
                                         !.post = Cache]
                /\ Finish(p, [keys |-> CachedKeys, err |-> nil], 0)
    /\ UNCHANGED <<tv, ExpiryTime, now, calls, fetched>>

\* Keys: Mutex.Lock, the refresh decision and, when the cache is fresh,
\* the return (with the deferred Unlock) and the rest of VerifyToken.
\* Otherwise refreshKeys drops the cached keys and sends the request.
KeysEnter(p) ==
    /\ pc[p] = "lock"
    /\ Mutex = 0
    /\ wt' = [wt EXCEPT ![p] = NoWait]
    /\ LET entered == [NoKeysCall EXCEPT !.stale0 = wt[p].stale0,
                                         !.since = wt[p].since, !.pre = Cache, !.at = now]
       IN  IF needsRefresh(Cache, now)
           THEN /\ Mutex' = p
                /\ CachedKeys' = refreshStart(Cache).keys
                /\ pc' = [pc EXCEPT ![p] = "fetch"]
                /\ kc' = [entered EXCEPT !.phase = "fetching", !.refreshed = TRUE, !.fetches = 1]
                /\ UNCHANGED <<tok, payload, tr, last, req, served>>
           ELSE /\ Mutex' = 0
                /\ CachedKeys' = CachedKeys
                /\ kc' = [entered EXCEPT !.phase = "returned",
                                         !.ret = [keys |-> CachedKeys, err |-> nil],
                                         !.post = Cache]
                /\ Finish(p, [keys |-> CachedKeys, err |-> nil], 0)
    /\ UNCHANGED <<tv, ExpiryTime, now, calls, fetched>>

\* Mutant: Keys unlocks only where it returns the keys, not where it
\* returns the error of refreshKeys.
HTTPResponse_NoUnlockOnError(p, resp) ==
    /\ pc[p] = "fetch"
    /\ LET r == refreshFinish(Cache, resp, now)
           kr == keysAfterRefresh(r.err, r.cache.keys)
           outcome == IF r.err # nil THEN "fail"
                      ELSE IF r.cache.keys = NoKeys THEN "empty" ELSE "ok"
       IN  /\ CachedKeys' = r.cache.keys
           /\ ExpiryTime' = r.cache.expiry
           /\ Mutex' = IF kr.err # nil THEN Mutex ELSE 0
           /\ kc' = [kc EXCEPT !.phase = "returned", !.resp = resp, !.rerr = r.err,
                                !.ret = kr, !.post = r.cache]
           /\ fetched' = IF r.err = nil THEN [isNil |-> FALSE, resp |-> resp, at |-> now]
                          ELSE fetched
           /\ wt' = [q \in Callers |->
                       IF pc[q] = "lock" THEN [wt[q] EXCEPT !.since = outcome] ELSE wt[q]]
           /\ Finish(p, kr, 1)
    /\ UNCHANGED <<tv, now, calls>>

\* The HTTP exchange ends with outcome resp: the rest of refreshKeys, the
\* return of Keys (with the deferred Unlock) and the rest of VerifyToken.
HTTPResponse(p, resp) ==
    /\ pc[p] = "fetch"
    /\ LET r == refreshFinish(Cache, resp, now)
           kr == keysAfterRefresh(r.err, r.cache.keys)
           outcome == IF r.err # nil THEN "fail"
                      ELSE IF r.cache.keys = NoKeys THEN "empty" ELSE "ok"
       IN  /\ CachedKeys' = r.cache.keys
           /\ ExpiryTime' = r.cache.expiry
           /\ Mutex' = 0
           /\ kc' = [kc EXCEPT !.phase = "returned", !.resp = resp, !.rerr = r.err,
                                !.ret = kr, !.post = r.cache]
           /\ fetched' = IF r.err = nil THEN [isNil |-> FALSE, resp |-> resp, at |-> now]
                          ELSE fetched
           /\ wt' = [q \in Callers |->
                       IF pc[q] = "lock" THEN [wt[q] EXCEPT !.since = outcome] ELSE wt[q]]
           /\ Finish(p, kr, 1)
    /\ UNCHANGED <<tv, now, calls>>

Next ==
    \/ Tick
    \/ \E p \in Callers, token \in Tokens : VerifyTokenStart(p, token)
    \/ \E p \in Callers : KeysEnter(p)
    \/ \E p \in Callers, resp \in Responses : HTTPResponse(p, resp)

Spec == Init /\ [][Next]_vars

(***************************************************************************)
(* Properties of Keys and VerifyToken, checked under Spec.  Every Keys     *)
(* call is the most recent one when it takes the lock and when it returns, *)
(* every VerifyToken call is the most recent one when it returns.          *)
(***************************************************************************)
KeysDecided == kc.phase \in {"fetching", "returned"}
KeysReturned == kc.phase = "returned"
Returned == last.returned
AllStages == <<"content", "timestamps", "signature">>

\* C1: a Keys call that refreshes while a non-empty key set is cached, and
\* whose refresh fails, returns that cached key set and a nil error.
C1_StaleKeysOnFailedRefresh ==
    (KeysReturned /\ kc.refreshed /\ kc.pre.keys # NoKeys /\ kc.rerr # nil)
        => kc.ret = [keys |-> kc.pre.keys, err |-> nil]

\* C2: VerifyToken returns a Token, with a nil error, only after the content,
\* the timestamp and the signature stage of that call passed in this order;
\* in every other outcome it returns no Token and an error.
C2_TokenOnlyAfterAllStages ==
    Returned =>
        IF last.ret.token # NoToken
        THEN last.ret.err = nil /\ last.tr.stages = AllStages
        ELSE last.ret.err # nil /\ last.tr.stages # AllStages

C2_Witness == Returned /\ last.ret.token # NoToken /\ last.tr.stages = AllStages

\* C3 (as claimed): of the callers that invoked Keys while a non-empty key
\* set was cached and expired, the first lock holder fetches and every
\* later lock holder does not fetch and returns the newly cached set.
C3_ExactlyOneFetch ==
    (KeysDecided /\ kc.stale0) =>
        /\ kc.since = "none" => kc.refreshed
        /\ kc.since # "none" => ~kc.refreshed

\* C3 (amended): the first lock holder fetches; a later lock holder returns
\* the newly cached set without fetching exactly when the fetch before it
\* succeeded with a non-empty key set whose new expiry has not passed; after
\* a failed fetch, a fetch of no keys, or a new expiry already passed, it
\* fetches again.
C3_OneFetchWhenFirstSucceeds ==
    (KeysDecided /\ kc.stale0) =>
        /\ kc.since = "none" => kc.refreshed
        /\ (kc.since = "ok" /\ kc.at <= kc.pre.expiry) =>
              /\ ~kc.refreshed
              /\ kc.fetches = 0
              /\ kc.pre.keys # NoKeys
              /\ kc.ret = [keys |-> kc.pre.keys, err |-> nil]
        /\ (kc.since = "ok" /\ kc.at > kc.pre.expiry) => kc.refreshed
        /\ kc.since \in {"fail", "empty"} => kc.refreshed

C3_Witness == KeysReturned /\ kc.stale0 /\ kc.since = "ok" /\ ~kc.refreshed

\* C4: a Keys call made while a non-empty key set is cached and the time is
\* strictly before the cached expiry returns the cached set and a nil error,
\* makes no HTTP request and leaves key set and expiry unchanged.
C4_FreshCacheServed ==
    (KeysDecided /\ kc.pre.keys # NoKeys /\ kc.at < kc.pre.expiry) =>
        /\ KeysReturned
        /\ ~kc.refreshed
        /\ kc.fetches = 0
        /\ kc.ret = [keys |-> kc.pre.keys, err |-> nil]
        /\ kc.post = kc.pre

C4_Witness == KeysReturned /\ kc.pre.keys # NoKeys /\ kc.at < kc.pre.expiry

C6_CacheReplacedOnlyOnSuccess ==
    (KeysReturned /\ kc.refreshed) =>
        IF kc.rerr # nil
        THEN kc.post = kc.pre
        ELSE kc.post.expiry >= kc.at /\ kc.ret.keys = kc.post.keys

\* C7: a Keys call made while the cache is empty whose refresh fails returns
\* no key set and the refresh error, and the cache is still empty.
C7_ErrorOnEmptyCache ==
    (KeysReturned /\ kc.pre.keys = NoKeys /\ kc.rerr # nil) =>
        /\ kc.ret = [keys |-> NoKeys, err |-> kc.rerr]
        /\ kc.post.keys = NoKeys

C7_Witness == KeysReturned /\ kc.pre.keys = NoKeys /\ kc.rerr # nil

\* C8: VerifyToken with an empty project ID or an empty token string returns
\* an error and no Token, decodes nothing, does not call Keys and makes no
\* HTTP request; the project ID error wins when both are empty.
C8_EmptyInputsFailEarly ==
    (Returned /\ (tv.projectID = "" \/ last.tok = EmptyToken)) =>
        /\ last.ret.token = NoToken
        /\ last.ret.err = IF tv.projectID = "" THEN "project id not available"
                          ELSE "must be a non-empty string"
        /\ last.tr.decodes = 0
        /\ last.tr.keysCalls = 0
        /\ last.tr.fetches = 0

C8_Witness ==
    Returned /\ tv.projectID = "" /\ last.tok = EmptyToken
        /\ last.ret.err = "project id not available"

(***************************************************************************)
(* Content validation over the tokens of ContentTokens: one caller runs    *)
(* VerifyToken on tokens whose header and claims range over the cases of   *)
(* verifyContent.                                                          *)
(***************************************************************************)
S8 == "aaaaaaaa"
S32 == S8 \o S8 \o S8 \o S8
S127 == S32 \o S32 \o S32 \o S8 \o S8 \o S8 \o "aaaaaaa"
S128 == S127 \o "a"
S129 == S128 \o "a"

ContentHeaders ==
    {Header(kid, alg) : kid \in {"", "k1"}, alg \in {"RS256", "HS256"}}
    \cup {HeaderNoKid("RS256"), BadB64Seg, BadJSONSeg,
          JSONSeg([alg |-> Str("RS256"), kid |-> Num(1)])}

ContentPayloads ==
    {Payload(iss, aud, sub, 0, 100) :
        iss \in {GoodIssuer, idTokenIssuerPrefix \o "other"},
        aud \in {ProjectID, "other", firebaseAudience},
        sub \in {"", "u", S127, S128, S129}}
    \cup {BadB64Seg, BadJSONSeg, JSONSeg(NoObj),
          JSONSeg([iss |-> Str(GoodIssuer), aud |-> Num(7), sub |-> Str("u")])}

ContentTokens == {Signed(h, p, "km1") : h \in ContentHeaders, p \in ContentPayloads}

InitContent == InitWith({ProjectID}, {1})

\* One call per behaviour, followed to its return.
NextContent ==
    \/ Tick
    \/ \E token \in ContentTokens : calls = 0 /\ VerifyTokenStart(1, token)
    \/ KeysEnter(1)
    \/ \E resp \in Responses : HTTPResponse(1, resp)

SpecContent == InitContent /\ [][NextContent]_vars

\* The five conditions of C9 on the header and the claims of a token.
ContentConditions(token) ==
    LET h == decodeHeader(token[1]).val
        c == decodeToken(token[2]).val
    IN  /\ h.KeyID # ""
        /\ h.Algorithm = "RS256"
        /\ c.Audience = tv.projectID
        /\ c.Issuer = tv.issuerPrefix \o tv.projectID
        /\ Len(c.Subject) >= 1
        /\ Len(c.Subject) <= 128

Decodable(token) ==
    Len(token) = 3 /\ decodeHeader(token[1]).err = nil /\ decodeToken(token[2]).err = nil

\* C9: for a three-segment token whose header and claims decode, content
\* validation passes iff the key id is non-empty, the algorithm is RS256,
\* the audience is the project ID, the issuer is issuerPrefix + project ID
\* and the subject has 1 to 128 characters; a token violating one of them is
\* rejected before the timestamp and signature stages.
C9_ContentPassesIff ==
    /\ \A p \in Callers :
          pc[p] # "idle" => (Decodable(tok[p]) /\ ContentConditions(tok[p]))
    /\ (Returned /\ Decodable(last.tok)) =>
          /\ (last.tr.stages # <<>>) <=> ContentConditions(last.tok)
          /\ ~ContentConditions(last.tok) =>
                /\ last.ret.token = NoToken
                /\ last.ret.err # nil
                /\ last.tr.keysCalls = 0
                /\ last.tr.fetches = 0

C9_Witness ==
    /\ Returned
    /\ Decodable(last.tok)
    /\ Len(decodeToken(last.tok[2]).val.Subject) = 128
    /\ last.tr.stages # <<>>

(***************************************************************************)
(* Timestamp validation over the tokens of TimestampTokens: tokens with    *)
(* valid content whose iat and exp range over all of int64, verified at    *)
(* each time of the clock.                                                 *)
(***************************************************************************)
TimestampPairs ==
    ((IntMin..IntMax) \X {100}) \cup ({0} \X (IntMin..IntMax))
    \cup ({IntMin, IntMax} \X {IntMin, IntMax})

TimestampTokens ==
    {Signed(Header("k1", "RS256"), Payload(GoodIssuer, ProjectID, "user1", ie[1], ie[2]), "km1") :
        ie \in TimestampPairs}

InitTimestamps == InitWith({ProjectID}, 1..MaxTime)

\* One call per behaviour.  A token that passes stays blocked in Mutex.Lock:
\* the key source is not part of this specification.
NextTimestamps == \E token \in TimestampTokens : calls = 0 /\ VerifyTokenStart(1, token)

SpecTimestamps == InitTimestamps /\ [][NextTimestamps]_vars

IssuedAt(token) == decodeToken(token[2]).val.IssuedAt
Expires(token) == decodeToken(token[2]).val.Expires

\* The condition of C10 under which a token is rejected at time t.
RejectCondition(token, t) == IssuedAt(token) - 300 > t \/ Expires(token) + 300 < t

\* The most recent call was rejected by verifyTimestamps.
TimestampsRejected == Returned /\ last.tr.stages = <<"content">>

\* C10: timestamp validation rejects a token iff issued-at - 300 > now or
\* expiry + 300 < now; the boundaries issued-at = now + 300 and
\* expiry = now - 300 are accepted, and a token whose expiry is in the
\* future and whose issued-at is within 300 seconds of now passes.
C10_TimestampsRejectIff ==
    /\ \A p \in Callers : pc[p] # "idle" => ~RejectCondition(tok[p], now)
    /\ (Returned /\ last.tr.stages # <<>>) =>
          /\ TimestampsRejected <=> RejectCondition(last.tok, now)
          /\ (IssuedAt(last.tok) = now + 300 /\ Expires(last.tok) = now - 300)
                => ~TimestampsRejected
          /\ (Expires(last.tok) > now /\ IssuedAt(last.tok) >= now - 300
                /\ IssuedAt(last.tok) <= now + 300) => ~TimestampsRejected

\* What holds of the code: the same, for tokens whose issued-at - 300 and
\* expiry + 300 do not overflow int64.
TimestampsRejectIffInRange ==
    LET InRange(token) == IssuedAt(token) >= IntMin + 300 /\ Expires(token) <= IntMax - 300
    IN  /\ \A p \in Callers :
              (pc[p] # "idle" /\ InRange(tok[p])) => ~RejectCondition(tok[p], now)
        /\ (Returned /\ last.tr.stages # <<>> /\ InRange(last.tok)) =>
              (TimestampsRejected <=> RejectCondition(last.tok, now))

(***************************************************************************)
(* Signature validation over the tokens of SignatureTokens and the key     *)
(* sets of SignatureResponses: one caller, tokens with valid content and   *)
(* timestamps that differ in key id, signing key, signed text and          *)
(* signature encoding.                                                     *)
(***************************************************************************)
GoodHeader == Header("k1", "RS256")
OtherPayload == Payload(GoodIssuer, ProjectID, "user2", 0, 100)

\* The key id names another key than the one that signed.
TokOtherKid == Signed(Header("k2", "RS256"), GoodPayload, "km1")
TokK2 == Signed(Header("k2", "RS256"), GoodPayload, "km2")
\* The signature segment is not base64.
TokBadSig == <<GoodHeader, GoodPayload, BadSigSeg>>
\* The signature of another token: made by the right key over other claims.
TokSwapped == <<GoodHeader, GoodPayload, SigSeg("km1", GoodHeader, OtherPayload)>>
TokUser2 == Signed(GoodHeader, OtherPayload, "km1")

SignatureTokens == {TokGood, TokForged, TokOtherKid, TokK2, TokBadSig, TokSwapped, TokUser2}

CertsAB == [kid \in {"k1", "k2"} |-> GoodCert(IF kid = "k1" THEN "km1" ELSE "km2")]
\* The two keys under each other's identifier.
CertsBA == [kid \in {"k1", "k2"} |-> GoodCert(IF kid = "k1" THEN "km2" ELSE "km1")]

SignatureResponses ==
    {Response(FALSE, FALSE, StatusOK, Body(certs), CacheControl(2)) :
        certs \in {CertsA, CertsB, CertsAB, CertsBA, CertsNone}}
    \cup {Response(FALSE, FALSE, 500, BadBody, CacheControl(2))}

InitSignature == InitWith({ProjectID}, {1})

NextSignature ==
    \/ Tick
    \/ \E token \in SignatureTokens : VerifyTokenStart(1, token)
    \/ KeysEnter(1)
    \/ \E resp \in SignatureResponses : HTTPResponse(1, resp)

SpecSignature == InitSignature /\ [][NextSignature]_vars

KeyID(token) == decodeHeader(token[1]).val.KeyID

\* The third segment is the RS256 signature by the private key of k over
\* the first two segments joined by a dot.
Verifies(token, k) ==
    token[3].b64 /\ token[3].signer = k.Key /\ token[3].msg = <<token[1], token[2]>>

\* The most recent call reached the candidate loop with the key set of the
\* most recent Keys call.
SignatureStage == Returned /\ last.tr.keysCalls = 1 /\ KeysReturned /\ kc.ret.err = nil

SomeKeyVerifies == \E k \in kc.ret.keys : k.Kid = KeyID(last.tok) /\ Verifies(last.tok, k)

\* C11: when Keys returned a key set, VerifyToken succeeds iff that set holds
\* a key whose identifier is the token's key id and under which the
\* signature over header "." claims verifies, and then returns a Token whose
\* subject is the signed sub claim; otherwise (no key with that id, a wrong
\* key, an altered or malformed signature) it fails with the signature
\* verification error and returns no Token.
C11_SignatureValidIff ==
    SignatureStage =>
        IF SomeKeyVerifies
        THEN /\ last.ret.err = nil
             /\ last.ret.token # NoToken
             /\ last.ret.token.Subject = StrField(last.tok[2].obj, "sub")
             /\ last.tr.stages = AllStages
        ELSE last.ret = Result(NoToken, "failed to verify token signature")

C11_Witness ==
    /\ SignatureStage
    /\ SomeKeyVerifies
    /\ Cardinality(kc.ret.keys) = 2
    /\ last.ret.err = nil
    /\ last.ret.token.Subject = "user2"

\* The altered signature of C11 is rejected while the key of the token's key
\* id is in the returned set.
SignatureForgedRejected ==
    /\ SignatureStage
    /\ last.tok \in {TokForged, TokSwapped, TokBadSig}
    /\ \E k \in kc.ret.keys : k.Kid = KeyID(last.tok)
    /\ last.ret.err = "failed to verify token signature"

(***************************************************************************)
(* The open claims mapping over the tokens of ClaimsTokens: one caller,    *)
(* valid tokens whose payload holds, besides the claims verifyContent      *)
(* checks, each subset of ExtraClaims.                                     *)
(***************************************************************************)
RequiredClaims ==
    [iss |-> Str(GoodIssuer), aud |-> Str(ProjectID), sub |-> Str("user1"),
     iat |-> Num(0), exp |-> Num(100)]

ExtraClaims ==
    [uid |-> Str("spoofed"), auth_time |-> Num(1), firebase |-> Obj("password"),
     role |-> Str("admin"), level |-> Num(7)]

ClaimsPayload(names) ==
    JSONSeg([name \in DOMAIN RequiredClaims \cup names |->
                IF name \in names THEN ExtraClaims[name] ELSE RequiredClaims[name]])

ClaimsTokens ==
    {Signed(GoodHeader, ClaimsPayload(names), "km1") : names \in SUBSET DOMAIN ExtraClaims}

ClaimsResponses ==
    {Response(FALSE, FALSE, StatusOK, Body(CertsA), CacheControl(2)),
     Response(FALSE, FALSE, 500, BadBody, CacheControl(2))}

InitClaims == InitWith({ProjectID}, {1})

NextClaims ==
    \/ Tick
    \/ \E token \in ClaimsTokens : VerifyTokenStart(1, token)
    \/ KeysEnter(1)
    \/ \E resp \in ClaimsResponses : HTTPResponse(1, resp)

SpecClaims == InitClaims /\ [][NextClaims]_vars

\* The JSON object of the claims segment of a token.
RawPayload(token) == token[2].obj

\* C12: the Claims mapping of every returned Token holds none of iss, aud,
\* exp, iat, sub, uid, and holds every other member of the raw payload
\* (auth_time and firebase included) with its value in the payload.
C12_OpenClaims ==
    (Returned /\ last.ret.token # NoToken) =>
        LET raw == RawPayload(last.tok)
            claims == last.ret.token.Claims
        IN  /\ DOMAIN claims \cap {"iss", "aud", "exp", "iat", "sub", "uid"} = {}
            /\ \A name \in DOMAIN raw \ {"iss", "aud", "exp", "iat", "sub", "uid"} :
                  name \in DOMAIN claims /\ claims[name] = raw[name]
            /\ DOMAIN claims \subseteq DOMAIN raw

C12_Witness ==
    /\ Returned
    /\ last.ret.token # NoToken
    /\ {"uid", "auth_time", "firebase", "role"} \subseteq DOMAIN RawPayload(last.tok)
    /\ DOMAIN last.ret.token.Claims = {"auth_time", "firebase", "role"}
    /\ last.ret.token.AuthTime = 1

(***************************************************************************)
(* The refresh over the responses of RefreshResponses: the callers verify  *)
(* one valid token while the key endpoint answers in every way             *)
(* refreshKeys distinguishes.                                              *)
(***************************************************************************)
\* The least max-age whose time.Duration does not fit int64.
HugeMaxAge == (IntMax \div Second) + 1

RefreshResponses ==
    Responses \cup OtherFailedResponses
    \cup {Response(FALSE, FALSE, StatusOK, Body(CertsAB), CacheControl(1)),
          Response(FALSE, FALSE, StatusOK, Body(CertsA), CacheControl(-1)),
          Response(FALSE, FALSE, StatusOK, Body(CertsA), CacheControl(HugeMaxAge)),
          Response(FALSE, FALSE, StatusOK, Body(CertsAB), <<Directive(FALSE, FALSE, 0)>>),
          Response(FALSE, FALSE, StatusOK, Body(CertsNone), NoMaxAge)}

InitRefresh == InitWith({ProjectID}, {1})

NextRefresh ==
    \/ Tick
    \/ \E p \in Callers : VerifyTokenStart(p, TokGood)
    \/ \E p \in Callers : KeysEnter(p)
    \/ \E p \in Callers, resp \in RefreshResponses : HTTPResponse(p, resp)

SpecRefresh == InitRefresh /\ [][NextRefresh]_vars

\* The response has status 200 and a body in which every certificate parses
\* to an RSA key.
ValidKeyContent(resp) ==
    /\ ~resp.doErr
    /\ ~resp.readErr
    /\ resp.status = 200
    /\ resp.body.json
    /\ \A kid \in DOMAIN resp.body.certs :
          LET c == resp.body.certs[kid] IN c.pem /\ c.x509 /\ c.rsa

NoMaxAgeDirective(resp) == \A i \in 1..Len(resp.cc) : ~resp.cc[i].maxage

\* C13: a refresh whose response has status 200 and valid key content but no
\* max-age directive fails with the missing-max-age error; the fetched keys
\* are not in the cache while the request is pending or afterwards, and the
\* expiry is what it was before the call.
C13_MissingMaxAgeFails ==
    /\ Mutex # 0 => CachedKeys = NoKeys /\ ExpiryTime = kc.pre.expiry
    /\ (KeysReturned /\ kc.refreshed /\ ValidKeyContent(kc.resp) /\ NoMaxAgeDirective(kc.resp)) =>
          /\ kc.rerr = "Could not find expiry time from HTTP headers"
          /\ kc.post.keys = NoKeys
          /\ kc.post.expiry = kc.pre.expiry

C13_Witness ==
    /\ KeysReturned
    /\ kc.refreshed
    /\ ValidKeyContent(kc.resp)
    /\ NoMaxAgeDirective(kc.resp)
    /\ DOMAIN kc.resp.body.certs = {"k1", "k2"}
    /\ kc.pre.keys # NoKeys
    /\ kc.pre.expiry # ZeroTime
    /\ CachedKeys = NoKeys
    /\ ExpiryTime = kc.pre.expiry

(***************************************************************************)
(* The segment count over the tokens of SegmentTokens: one caller, token   *)
(* strings of one to five segments, the empty string among them.           *)
(***************************************************************************)
GoodSig == SigSeg("km1", GoodHeader, GoodPayload)

SegmentTokens ==
    {EmptyToken,
     <<GoodHeader>>,
     <<EmptySeg, EmptySeg>>,
     TokTwoSegs,
     <<EmptySeg, EmptySeg, EmptySeg>>,
     TokGood,
     <<GoodHeader, GoodPayload, GoodSig, EmptySeg>>,
     <<GoodHeader, GoodPayload, GoodSig, GoodSig>>,
     <<EmptySeg, GoodHeader, GoodPayload, GoodSig>>,
     <<GoodHeader, GoodPayload, GoodSig, GoodHeader, GoodPayload>>}

InitSegments == InitWith({"", ProjectID}, {1})

NextSegments ==
    \/ Tick
    \/ \E token \in SegmentTokens : VerifyTokenStart(1, token)
    \/ KeysEnter(1)
    \/ \E resp \in ClaimsResponses : HTTPResponse(1, resp)

SpecSegments == InitSegments /\ [][NextSegments]_vars

\* The most recent call failed as a malformed token before the key source.
MalformedTokenFailure ==
    /\ last.ret = Result(NoToken, "incorrect number of segments")
    /\ last.tr.keysCalls = 0
    /\ last.tr.fetches = 0

\* C14 (as claimed): VerifyToken of a token string whose number of segments
\* is not three fails with the incorrect-number-of-segments error, returns
\* no Token and does not call the key source.
C14_WrongSegmentCountFails ==
    (Returned /\ Len(last.tok) # 3) => MalformedTokenFailure

\* C14 (amended): the same for a non-empty token string and a verifier with
\* a project ID; the empty string, which has one segment, and every token
\* given to a verifier without project ID fail in the guards of VerifyToken
\* with their own errors, also without calling the key source.
C14_WrongSegmentCountFailsNonEmpty ==
    (Returned /\ Len(last.tok) # 3) =>
        IF tv.projectID = ""
        THEN last.ret = Result(NoToken, "project id not available") /\ last.tr.keysCalls = 0
        ELSE IF last.tok = EmptyToken
        THEN last.ret = Result(NoToken, "must be a non-empty string") /\ last.tr.keysCalls = 0
        ELSE MalformedTokenFailure

C14_Witness ==
    /\ Returned
    /\ Len(last.tok) = 4
    /\ last.tok[1] = GoodHeader
    /\ tv.projectID # ""
    /\ MalformedTokenFailure

(***************************************************************************)
(* The plugin over the requests of Requests: ServeHTTP serves, one at a    *)
(* time, requests without Authorization header and with one whose value    *)
(* holds "Bearer " zero, one or two times before tokens that pass or fail  *)
(* in each stage of VerifyToken.  New rejects an empty project ID.         *)
(***************************************************************************)
TokClaims == Signed(GoodHeader, ClaimsPayload({"uid", "role", "level"}), "km1")

PluginTokens == {EmptyToken, TokTwoSegs, TokBadAud, TokExpired, TokForged, TokGood, TokClaims}

Requests ==
    {Request(FALSE, 0, EmptyToken)}
    \cup {Request(TRUE, bearer, token) : bearer \in 0..2, token \in PluginTokens}

InitPlugin == InitWith({ProjectID}, {1})

NextPlugin ==
    \/ Tick
    \/ \E r \in Requests : ServeHTTP(1, r)
    \/ KeysEnter(1)
    \/ \E resp \in ClaimsResponses : HTTPResponse(1, resp)

SpecPlugin == InitPlugin /\ [][NextPlugin]_vars

\* The names of the pairs in a set of headers.
HeaderNames(set) == {h[1] : h \in set}

\* In the most recent exchange VerifyToken was called on the token extracted
\* from the Authorization header and succeeded.
VerifiedExchange ==
    /\ served.req.hasAuth
    /\ served.called
    /\ last.returned
    /\ last.tok = served.req.token
    /\ last.ret = served.res
    /\ last.ret.err = nil

\* C15: ServeHTTP calls the next handler iff the request has an
\* Authorization header and VerifyToken succeeded on the extracted token;
\* otherwise (no header, or any error of VerifyToken) it does not call the
\* next handler and answers 401 "Unauthorized"; it sets fb-userid and
\* fbclaim-* request headers only when VerifyToken succeeded.
C15_NextIffVerified ==
    served.done =>
        /\ served.next <=> VerifiedExchange
        /\ served.called <=> served.req.hasAuth
        /\ served.called => (last.returned /\ last.tok = served.req.token /\ last.ret = served.res)
        /\ ~served.next =>
              /\ served.status = 401
              /\ served.body = "Unauthorized\n"
              /\ served.set = {}
        /\ served.next =>
              /\ served.status = 0
              /\ <<"fb-userid", served.res.token.Subject>> \in served.set
              /\ HeaderNames(served.set) =
                    {"fb-userid"} \cup {"fbclaim-" \o key : key \in DOMAIN served.res.token.Claims}

C15_Witness ==
    /\ served.done
    /\ served.next
    /\ served.req.bearer = 1
    /\ served.set = {<<"fb-userid", "user1">>, <<"fbclaim-role", "admin">>, <<"fbclaim-level", "7">>}

\* Every kind of failure ends in the same response.
UnauthorizedOn(err) ==
    served.done /\ served.res.err = err /\ ~served.next /\ served.status = 401

(***************************************************************************)
(* Mutual exclusion and the order of the stages, checked under Spec.       *)
(***************************************************************************)
\* The callers inside the critical section of Keys.  A caller that finds
\* the cache fresh enters and leaves it within one step.
InKeys == {p \in Callers : pc[p] = "fetch"}

\* Key set and expiry are those the most recent successful refresh
\* computed from its one response.
CacheFromOneRefresh ==
    /\ fetched # NoFetch
    /\ CachedKeys = parsePublicKeys(fetched.resp.body).result
    /\ ExpiryTime = Add(fetched.at, findMaxAge(fetched.resp).maxAge)

\* C16: at most one caller is inside the critical section of Keys, and it is
\* the holder of the mutex, so at most one fetch is in flight; whenever the
\* mutex is free, so that a caller may take it and read the cache, a
\* non-empty key set and the expiry come from the same refresh.
C16_MutualExclusion ==
    /\ Cardinality(InKeys) <= 1
    /\ \A p \in Callers : (p \in InKeys) <=> (Mutex = p)
    /\ (Mutex = 0 /\ CachedKeys # NoKeys) => CacheFromOneRefresh
    /\ (KeysDecided /\ ~kc.refreshed) => kc.ret.keys = kc.pre.keys

C16_Witness ==
    /\ \E p, q \in Callers : p # q /\ pc[p] = "fetch" /\ pc[q] = "lock" /\ Mutex = p
    /\ fetched # NoFetch
    /\ CachedKeys = NoKeys

\* The token passes verifyContent, and verifyTimestamps at some time up to
\* now.
PassedBeforeKeys(token) ==
    /\ precheck(tv, token) = nil
    /\ verifyContent(tv, token).err = nil
    /\ \E t \in 1..now : verifyTimestamps(verifyContent(tv, token).payload, t, t) = nil

\* C17, in every state: a call invokes Keys at most once and only after the
\* content and the timestamp stage passed, a Keys call sends at most one
\* request, and a call that failed before the signature stage never called
\* Keys and sent no request.
C17_State ==
    /\ \A p \in Callers :
          /\ tr[p].keysCalls <= 1
          /\ pc[p] # "idle" =>
                /\ tr[p].keysCalls = 1
                /\ tr[p].stages = <<"content", "timestamps">>
                /\ PassedBeforeKeys(tok[p])
    /\ KeysDecided => kc.fetches <= 1
    /\ Returned =>
          /\ last.tr.keysCalls <= 1
          /\ last.tr.fetches <= last.tr.keysCalls
          /\ last.tr.keysCalls = 1 =>
                /\ PassedBeforeKeys(last.tok)
                /\ SubSeq(last.tr.stages, 1, 2) = <<"content", "timestamps">>
          /\ ~PassedBeforeKeys(last.tok) =>
                /\ last.tr.keysCalls = 0
                /\ last.tr.fetches = 0
                /\ last.ret.token = NoToken

\* C17, in every step: a call that returns without blocking, as every call
\* that fails in the guards, the content stage or the timestamp stage does,
\* leaves key set, expiry and mutex as they are and completes no request.
C17_Step ==
    (calls' # calls /\ pc' = pc) =>
        /\ last'.tr.keysCalls = 0
        /\ UNCHANGED <<CachedKeys, ExpiryTime, Mutex, fetched, kc>>

\* C17: within one VerifyToken call Keys is invoked at most once and only
\* after content and timestamp validation passed; each Keys call issues at
\* most one HTTP GET; a call failing in the content or timestamp stage
\* leaves the key cache unchanged and performs no network I/O; nothing is
\* retried.
C17_KeysOnceAfterStages == [](C17_State) /\ [][C17_Step]_vars

C17_Witness ==
    /\ Returned
    /\ last.tr.keysCalls = 1
    /\ last.tr.fetches = 1
    /\ kc.rerr # nil
    /\ last.ret.err = kc.rerr

\* A call failed in the timestamp stage while a key set was cached.
TimestampFailureWithCache ==
    /\ Returned
    /\ last.tr.stages = <<"content">>
    /\ last.tr.keysCalls = 0
    /\ CachedKeys # NoKeys

(***************************************************************************)
(* The content of the cache, checked under SpecRefresh.                    *)
(***************************************************************************)
\* The seconds of the first max-age directive of a response.
MaxAgeSeconds(resp) ==
    LET i == CHOOSE j \in 1..Len(resp.cc) :
                 resp.cc[j].maxage /\ \A l \in 1..(j - 1) : ~resp.cc[l].maxage
    IN  resp.cc[i].secs

\* Every key of the body of a response.
AllKeysOf(resp) ==
    {PublicKey(kid, resp.body.certs[kid].key) : kid \in DOMAIN resp.body.certs}

\* The cached keys are all the keys of the most recent successful fetch,
\* every entry of which parsed.
KeysOfLastFetch ==
    /\ fetched # NoFetch
    /\ ValidKeyContent(fetched.resp)
    /\ CachedKeys = AllKeysOf(fetched.resp)

\* C18: the cache is empty at construction; whenever the cached key set is
\* non-empty it is the complete key set of the most recent successful fetch
\* and the cached expiry is the completion time of that fetch plus its
\* max-age.
C18_CacheIsLastFetch ==
    /\ calls = 0 => (CachedKeys = NoKeys /\ ExpiryTime = ZeroTime)
    /\ CachedKeys # NoKeys =>
          /\ KeysOfLastFetch
          /\ ExpiryTime = fetched.at + MaxAgeSeconds(fetched.resp)

\* What holds of the code: the same, for a max-age whose time.Duration fits
\* int64.
CacheIsLastFetchInRange ==
    /\ calls = 0 => (CachedKeys = NoKeys /\ ExpiryTime = ZeroTime)
    /\ CachedKeys # NoKeys =>
          /\ KeysOfLastFetch
          /\ (MaxAgeSeconds(fetched.resp) * Second \in IntMin..IntMax) =>
                ExpiryTime = fetched.at + MaxAgeSeconds(fetched.resp)

\* A second successful fetch replaced a cached key set by a different one.
CacheReplaced ==
    /\ KeysReturned
    /\ kc.refreshed
    /\ kc.pre.keys # NoKeys
    /\ CachedKeys # NoKeys
    /\ CachedKeys \cap kc.pre.keys = {}

(***************************************************************************)
(* The key id at the signature stage: one caller runs VerifyToken on the   *)
(* tokens of ContentTokens, whose key id is absent, empty or k1, against   *)
(* key sets of one and of two keys.                                        *)
(***************************************************************************)
KeyIDResponses ==
    {Response(FALSE, FALSE, StatusOK, Body(certs), CacheControl(2)) :
        certs \in {CertsA, CertsB, CertsAB, CertsBA}}
    \cup {Response(FALSE, FALSE, 500, BadBody, CacheControl(2))}

InitKeyID == InitWith({ProjectID}, {1})

\* One call per behaviour, followed to its return.
NextKeyID ==
    \/ Tick
    \/ \E token \in ContentTokens : calls = 0 /\ VerifyTokenStart(1, token)
    \/ KeysEnter(1)
    \/ \E resp \in KeyIDResponses : HTTPResponse(1, resp)

SpecKeyID == InitKeyID /\ [][NextKeyID]_vars

\* C19: a call that reaches the signature stage has a token with a non-empty
\* key id; a token whose header decodes to an empty key id is rejected by
\* the content stage with the custom-token error when its audience is the
\* reserved one and with the missing-kid error otherwise, whatever its
\* algorithm, audience, issuer and subject; and only keys whose identifier
\* is the token's key id are tried.
C19_KeyIDAtSignatureStage ==
    /\ \A p \in Callers : pc[p] # "idle" => KeyID(tok[p]) # ""
    /\ (Returned /\ Decodable(last.tok) /\ KeyID(last.tok) = "") =>
          /\ last.ret.token = NoToken
          /\ last.ret.err =
                IF decodeToken(last.tok[2]).val.Audience = firebaseAudience
                THEN "got a custom token"
                ELSE "has no 'kid' header"
          /\ last.tr.stages = <<>>
          /\ last.tr.keysCalls = 0
    /\ (Returned /\ last.tr.keysCalls = 1) =>
          /\ KeyID(last.tok) # ""
          /\ \A k \in last.tr.tried : k.Kid = KeyID(last.tok)

C19_Witness ==
    /\ Returned
    /\ last.tr.keysCalls = 1
    /\ Cardinality(kc.ret.keys) = 2
    /\ Cardinality(last.tr.tried) = 1
    /\ last.ret.err = "failed to verify token signature"

\* An absent key id wins over a wrong algorithm, audience, issuer and
\* subject.
MissingKidPrecedes ==
    /\ Returned
    /\ Decodable(last.tok)
    /\ "kid" \notin DOMAIN last.tok[1].obj
    /\ decodeToken(last.tok[2]).val.Audience = "other"
    /\ decodeToken(last.tok[2]).val.Issuer # GoodIssuer
    /\ decodeToken(last.tok[2]).val.Subject = ""
    /\ last.ret.err = "has no 'kid' header"

(***************************************************************************)
(* Termination of Keys: the callers verify a valid token while the key     *)
(* endpoint answers with keys that expire at once, keys that stay fresh,   *)
(* or an error.  Every HTTP exchange ends, with a response or an error     *)
(* (weak fairness of HTTPResponse: it stays enabled while the caller       *)
(* waits), and the mutex is granted to every caller that waits for it      *)
(* (strong fairness of KeysEnter: the mutex is free again and again; a     *)
(* sync.Mutex hands the lock to a waiter that has waited too long).        *)
(***************************************************************************)
LiveResponses ==
    {Response(FALSE, FALSE, StatusOK, Body(CertsA), CacheControl(0)),
     Response(FALSE, FALSE, StatusOK, Body(CertsA), CacheControl(2)),
     Response(FALSE, FALSE, 500, BadBody, CacheControl(2))}

InitLive == InitWith({ProjectID}, {1})

NextLive ==
    \/ Tick
    \/ \E p \in Callers : VerifyTokenStart(p, TokGood)
    \/ \E p \in Callers : KeysEnter(p)
    \/ \E p \in Callers, resp \in LiveResponses : HTTPResponse(p, resp)

Fairness ==
    \A p \in Callers :
        /\ WF_vars(\E resp \in LiveResponses : HTTPResponse(p, resp))
        /\ SF_vars(KeysEnter(p))

SpecLive == InitLive /\ [][NextLive]_vars /\ Fairness

\* The mutex is free whenever no caller is inside Keys.
MutexFreeOutsideKeys == (InKeys = {}) => (Mutex = 0)

\* C20: every caller that called Keys, whether it waits for the mutex or for
\* the HTTP response, eventually has its result, on the cache hit, the
\* successful and the failed refresh alike, and the mutex is free whenever
\* no caller is inside Keys.
C20_KeysTerminates ==
    /\ [](MutexFreeOutsideKeys)
    /\ \A p \in Callers : (pc[p] # "idle") ~> (pc[p] = "idle")

\* All callers are in Keys at once: one waits for the response, the others
\* for the mutex.
C20_Witness ==
    /\ \A p \in Callers : pc[p] # "idle"
    /\ \E p \in Callers : pc[p] = "fetch"

=============================================================================
